---- MODULE Spec2Model ----
(***************************************************************************)
(* envshield-mcp: the secret-protection pipeline.                          *)
(*   Scrubber        src/src/core/scrubber.ts                              *)
(*   CommandExecutor src/src/mcp/mcp.ts (lines 70-211) and                 *)
(*                   src/src/core/executor.ts                              *)
(*   RateLimiter     src/unnamed/part_003                                  *)
(* Strings are sequences of one-character strings.                         *)
(***************************************************************************)
EXTENDS Integers, Sequences, FiniteSets, TLC

(***************************************************************************)
(* Bounds of the model.                                                    *)
(***************************************************************************)
\* longest text handed to scrub in ScrubSpec
MaxTextLen == 3
\* longest secret value in ScrubSpec
MaxValLen == 2
\* most pieces a text of PatternSpec is made of
MaxPieces == 4
\* longest command line in BlockSpec
MaxCmdLen == 4
\* most characters a child writes to one stream in ExecSpec
MaxOutLen == 2
\* last clock value (ms) in RateSpec
MaxTime == 6
\* largest windowMs in RateSpec
MaxWindow == 3
\* largest maxRequests in RateSpec
MaxRequestsBound == 2
\* most SecretStore.set calls in StoreSpec
MaxSets == 3
\* most callTool calls in ToolSpec
MaxCalls == 3
\* most custom patterns handed to the Scrubber constructor in ConstructSpec
MaxPatterns == 2

(***************************************************************************)
(* Strings.                                                                *)
(***************************************************************************)
\* all sequences over S of length 0..n
StrUpTo(S, n) == UNION {[1..k -> S] : k \in 0..n}

\* String.prototype.includes(v)
Includes(t, v) ==
    \E i \in 0..(Len(t) - Len(v)) : SubSeq(t, i + 1, i + Len(v)) = v

\* "*".repeat(n)
RECURSIVE Stars(_)
Stars(n) == IF n <= 0 THEN <<>> ELSE <<"*">> \o Stars(n - 1)

\* t.split("").join(r): r between every two characters of t
RECURSIVE Interleave(_, _)
Interleave(t, r) ==
    IF Len(t) <= 1 THEN t ELSE <<Head(t)>> \o r \o Interleave(Tail(t), r)

\* t.split(v).join(r) for non-empty v: the non-overlapping occurrences of v,
\* found left to right, are each replaced by r
RECURSIVE SplitJoinNonEmpty(_, _, _)
SplitJoinNonEmpty(t, v, r) ==
    LET starts == {p \in 1..(Len(t) - Len(v) + 1) :
                      SubSeq(t, p, p + Len(v) - 1) = v}
    IN IF starts = {} THEN t
       ELSE LET first == CHOOSE p \in starts : \A q \in starts : p <= q
            IN SubSeq(t, 1, first - 1) \o r
               \o SplitJoinNonEmpty(SubSeq(t, first + Len(v), Len(t)), v, r)

\* result.split(match).join(replacement)
SplitJoin(t, v, r) ==
    IF v = <<>> THEN Interleave(t, r) ELSE SplitJoinNonEmpty(t, v, r)

(***************************************************************************)
(* Scrubber.                                                               *)
(***************************************************************************)
RedactModes == {"placeholder", "asterisk", "partial"}

RedactedPrefix == <<"[", "R", "E", "D", "A", "C", "T", "E", "D", ":">>

\* a redact whose asterisk run is always three characters long
RedactThreeStars(mode, value, name) ==
    CASE mode = "placeholder" -> RedactedPrefix \o name \o <<"]">>
      [] mode = "asterisk" -> <<"*", "*", "*">>
      [] mode = "partial" ->
            IF Len(value) <= 6 THEN Stars(Len(value))
            ELSE SubSeq(value, 1, 3) \o <<"*", "*", "*">>
                 \o SubSeq(value, Len(value) - 2, Len(value))

\* a redact whose partial mode shows nothing of the value
RedactNeverPartial(mode, value, name) ==
    IF mode = "placeholder" THEN RedactedPrefix \o name \o <<"]">>
    ELSE Stars(Len(value))

\* Scrubber.redact
Redact(mode, value, name) ==
    CASE mode = "placeholder" -> RedactedPrefix \o name \o <<"]">>
      [] mode = "asterisk" -> Stars(Len(value))
      [] mode = "partial" ->
            IF Len(value) <= 6 THEN Stars(Len(value))
            ELSE SubSeq(value, 1, 3) \o <<"*", "*", "*">>
                 \o SubSeq(value, Len(value) - 2, Len(value))

Lower == {"a", "b", "c", "d", "e", "f", "g", "h", "i", "j", "k", "l", "m",
          "n", "o", "p", "q", "r", "s", "t", "u", "v", "w", "x", "y", "z"}
Upper == {"A", "B", "C", "D", "E", "F", "G", "H", "I", "J", "K", "L", "M",
          "N", "O", "P", "Q", "R", "S", "T", "U", "V", "W", "X", "Y", "Z"}
Digit == {"0", "1", "2", "3", "4", "5", "6", "7", "8", "9"}
AlphaNum == Lower \cup Upper \cup Digit
Base64Url == AlphaNum \cup {"_", "-"}

\* a regular expression is a sequence of items; an item matches lo..hi
\* characters of cs, greedily (hi = -1 stands for no upper limit)
Lit(c) == [cs |-> {c}, lo |-> 1, hi |-> 1]
Plus(S) == [cs |-> S, lo |-> 1, hi |-> -1]
Times(S, n) == [cs |-> S, lo |-> n, hi |-> n]
RECURSIVE LitSeq(_)
LitSeq(s) == IF s = <<>> THEN <<>> ELSE <<Lit(Head(s))>> \o LitSeq(Tail(s))

\* this.builtinPatterns
BuiltinPatterns == <<
    [pattern |-> LitSeq(<<"s", "k", "_", "l", "i", "v", "e", "_">>) \o <<Plus(AlphaNum)>>,
     name |-> <<"S","T","R","I","P","E","_","L","I","V","E","_","K","E","Y">>],
    [pattern |-> LitSeq(<<"s", "k", "_", "t", "e", "s", "t", "_">>) \o <<Plus(AlphaNum)>>,
     name |-> <<"S","T","R","I","P","E","_","T","E","S","T","_","K","E","Y">>],
    [pattern |-> LitSeq(<<"p", "k", "_", "l", "i", "v", "e", "_">>) \o <<Plus(AlphaNum)>>,
     name |-> <<"S","T","R","I","P","E","_","P","K","_","L","I","V","E">>],
    [pattern |-> LitSeq(<<"p", "k", "_", "t", "e", "s", "t", "_">>) \o <<Plus(AlphaNum)>>,
     name |-> <<"S","T","R","I","P","E","_","P","K","_","T","E","S","T">>],
    [pattern |-> LitSeq(<<"g", "h", "p", "_">>) \o <<Plus(AlphaNum)>>,
     name |-> <<"G","I","T","H","U","B","_","P","A","T">>],
    [pattern |-> LitSeq(<<"g", "h", "o", "_">>) \o <<Plus(AlphaNum)>>,
     name |-> <<"G","I","T","H","U","B","_","O","A","U","T","H">>],
    [pattern |-> LitSeq(<<"g", "h", "u", "_">>) \o <<Plus(AlphaNum)>>,
     name |-> <<"G","I","T","H","U","B","_","U","S","E","R">>],
    [pattern |-> LitSeq(<<"A", "K", "I", "A">>) \o <<Times(Upper \cup Digit, 16)>>,
     name |-> <<"A","W","S","_","A","C","C","E","S","S","_","K","E","Y">>],
    [pattern |-> LitSeq(<<"s", "k", "-">>) \o <<Times(AlphaNum, 48)>>,
     name |-> <<"O","P","E","N","A","I","_","K","E","Y">>],
    [pattern |-> LitSeq(<<"e", "y", "J">>) \o <<Plus(Base64Url), Lit("."),
                 Plus(Base64Url), Lit("."), Plus(Base64Url)>>,
     name |-> <<"J","W","T">>] >>

CustomPatternName == <<"C","U","S","T","O","M","_","P","A","T","T","E","R","N">>

\* how many characters of cs start at position pos of t, at most hi
RECURSIVE Run(_, _, _, _)
Run(t, pos, cs, hi) ==
    IF hi = 0 \/ pos > Len(t) \/ t[pos] \notin cs THEN 0
    ELSE 1 + Run(t, pos + 1, cs, hi - 1)

\* the end (exclusive) of the match of items k.. at pos, or 0 for no match.
\* Greedy without backtracking: exact for patterns in which no item can
\* give up characters to the item after it, as in every pattern used here.
RECURSIVE MatchEnd(_, _, _, _)
MatchEnd(t, pos, items, k) ==
    IF k > Len(items) THEN pos
    ELSE LET n == Run(t, pos, items[k].cs, items[k].hi)
         IN IF n < items[k].lo THEN 0 ELSE MatchEnd(t, pos + n, items, k + 1)

\* result.match(pattern) with the g flag: every match, left to right
RECURSIVE MatchAllFrom(_, _, _)
MatchAllFrom(t, pos, items) ==
    LET starts == {p \in pos..(Len(t) + 1) : MatchEnd(t, p, items, 1) # 0}
    IN IF starts = {} THEN <<>>
       ELSE LET first == CHOOSE p \in starts : \A q \in starts : p <= q
                e == MatchEnd(t, first, items, 1)
            IN <<SubSeq(t, first, e - 1)>>
               \o MatchAllFrom(t, IF e = first THEN first + 1 ELSE e, items)

MatchAll(t, items) == MatchAllFrom(t, 1, items)

\* how many times result.split(v) cuts t, for non-empty v
RECURSIVE CountOccurrences(_, _)
CountOccurrences(t, v) ==
    IF Len(t) < Len(v) THEN 0
    ELSE IF SubSeq(t, 1, Len(v)) = v
         THEN 1 + CountOccurrences(SubSeq(t, Len(v) + 1, Len(t)), v)
         ELSE CountOccurrences(Tail(t), v)

\* a loop body that counts every occurrence it replaces
KnownStepPerOccurrence(acc, entry, mode) ==
    IF entry.value # <<>> /\ Includes(acc.text, entry.value)
    THEN [text |-> SplitJoin(acc.text, entry.value,
                             Redact(mode, entry.value, entry.name)),
          redactedCount |-> acc.redactedCount
                            + CountOccurrences(acc.text, entry.value)]
    ELSE acc

\* the body of the loop over knownSecrets (scrubber.ts 100-106)
KnownStep(acc, entry, mode) ==
    IF entry.value # <<>> /\ Includes(acc.text, entry.value)
    THEN [text |-> SplitJoin(acc.text, entry.value,
                             Redact(mode, entry.value, entry.name)),
          redactedCount |-> acc.redactedCount + 1]
    ELSE acc

RECURSIVE KnownPass(_, _, _, _)
KnownPass(acc, known, i, mode) ==
    IF i > Len(known) THEN acc
    ELSE KnownPass(KnownStep(acc, known[i], mode), known, i + 1, mode)

\* for (const match of matches) { ... } (scrubber.ts 112-116, 124-128)
RECURSIVE ReplaceMatches(_, _, _, _, _)
ReplaceMatches(acc, matches, j, name, mode) ==
    IF j > Len(matches) THEN acc
    ELSE ReplaceMatches(
            [text |-> SplitJoin(acc.text, matches[j],
                                Redact(mode, matches[j], name)),
             redactedCount |-> acc.redactedCount + 1],
            matches, j + 1, name, mode)

\* the loop over this.builtinPatterns (scrubber.ts 109-118)
RECURSIVE BuiltinPass(_, _, _)
BuiltinPass(acc, i, mode) ==
    IF i > Len(BuiltinPatterns) THEN acc
    ELSE BuiltinPass(
            ReplaceMatches(acc, MatchAll(acc.text, BuiltinPatterns[i].pattern),
                           1, BuiltinPatterns[i].name, mode),
            i + 1, mode)

\* the loop over this.customPatterns (scrubber.ts 121-130)
RECURSIVE CustomPass(_, _, _, _)
CustomPass(acc, custom, i, mode) ==
    IF i > Len(custom) THEN acc
    ELSE CustomPass(
            ReplaceMatches(acc, MatchAll(acc.text, custom[i]),
                           1, CustomPatternName, mode),
            custom, i + 1, mode)

\* Scrubber.scrub: text, knownSecrets (a Map in insertion order, as a
\* sequence of [name, value]), with this.mode and this.customPatterns
Scrub(text, known, mode, custom) ==
    CustomPass(
        BuiltinPass(
            KnownPass([text |-> text, redactedCount |-> 0], known, 1, mode),
            1, mode),
        custom, 1, mode)

(***************************************************************************)
(* Scrubber: the constructor and validateRegexPattern.                     *)
(***************************************************************************)
\* "Regex pattern rejected due to potential catastrophic backtracking: "
RejectedPrefix ==
    <<"R", "e", "g", "e", "x", " ", "p", "a", "t", "t", "e", "r", "n", " ",
      "r", "e", "j", "e", "c", "t", "e", "d", " ", "d", "u", "e", " ", "t",
      "o", " ", "p", "o", "t", "e", "n", "t", "i", "a", "l", " ", "c", "a",
      "t", "a", "s", "t", "r", "o", "p", "h", "i", "c", " ", "b", "a", "c",
      "k", "t", "r", "a", "c", "k", "i", "n", "g", ":", " ">>

\* "Invalid regex pattern: "
InvalidPrefix ==
    <<"I", "n", "v", "a", "l", "i", "d", " ", "r", "e", "g", "e", "x", " ",
      "p", "a", "t", "t", "e", "r", "n", ":", " ">>

\* the words the catch block looks for in err.message (scrubber.ts 55)
CatastrophicWords ==
    <<"c", "a", "t", "a", "s", "t", "r", "o", "p", "h", "i", "c", " ", "b",
      "a", "c", "k", "t", "r", "a", "c", "k", "i", "n", "g">>

RejectedWord ==
    <<"r", "e", "j", "e", "c", "t", "e", "d">>

UnterminatedGroup ==
    <<"U", "n", "t", "e", "r", "m", "i", "n", "a", "t", "e", "d", " ", "g",
      "r", "o", "u", "p">>

BackslashAtEnd ==
    <<"\\", " ", "a", "t", " ", "e", "n", "d", " ", "o", "f", " ", "p",
      "a", "t", "t", "e", "r", "n">>

\* why new RegExp(pattern, "g") throws a SyntaxError, as <<the reason>>, or
\* << >> when the pattern compiles; for sources made of literals, ".",
\* escapes and opening parentheses
RECURSIVE SyntaxErrorReason(_)
SyntaxErrorReason(src) ==
    IF src = <<>> THEN <<>>
    ELSE IF Head(src) = "\\"
         THEN IF Len(src) = 1 THEN <<BackslashAtEnd>>
              ELSE SyntaxErrorReason(SubSeq(src, 3, Len(src)))
         ELSE IF Head(src) = "(" THEN <<UnterminatedGroup>>
              ELSE SyntaxErrorReason(Tail(src))

\* the message of the SyntaxError of new RegExp(pattern, "g")
SyntaxErrorMessage(pattern, reason) ==
    <<"I", "n", "v", "a", "l", "i", "d", " ", "r", "e", "g", "u", "l", "a",
      "r", " ", "e", "x", "p", "r", "e", "s", "s", "i", "o", "n", ":", " ",
      "/">> \o pattern \o <<"/", "g", ":", " ">> \o reason

\* a validation that never looks at the clock
ValidateRegexPatternUntimed(pattern, slow) ==
    LET reason == SyntaxErrorReason(pattern)
    IN IF reason = <<>> THEN <<>>
       ELSE <<InvalidPrefix \o pattern \o <<" ", "-", " ">>
              \o SyntaxErrorMessage(pattern, reason[1])>>

\* validateRegexPattern(pattern): << >> when it returns, <<the message of
\* the Error it throws>> otherwise; slow says that the duration measured
\* for one of the test cases was above maxDuration.  The callback of the
\* setTimeout cannot run while the loop runs, so signal.aborted stays false.
ValidateRegexPattern(pattern, slow) ==
    LET reason == SyntaxErrorReason(pattern)
    IN IF reason # <<>>
       THEN LET message == SyntaxErrorMessage(pattern, reason[1])
            IN IF \/ Includes(message, CatastrophicWords)
                  \/ Includes(message, RejectedWord)
               THEN <<message>>
               ELSE <<InvalidPrefix \o pattern \o <<" ", "-", " ">> \o message>>
       ELSE IF slow THEN <<RejectedPrefix \o pattern>> ELSE <<>>

\* customPatterns.map((p) => { validateRegexPattern(p); ... }): the index of
\* the first pattern whose validation throws, 0 when none does
RECURSIVE FirstRejected(_, _, _)
FirstRejected(sources, slow, i) ==
    IF i > Len(sources) THEN 0
    ELSE IF ValidateRegexPattern(sources[i], i \in slow) # <<>> THEN i
         ELSE FirstRejected(sources, slow, i + 1)

(***************************************************************************)
(* CommandExecutor: the blocklist check.                                   *)
(***************************************************************************)
\* the two CommandExecutor sources of the repository
Builds == {"mcp", "core"}

\* the characters blocked.replace(/[.*+?^${}()|[\]\\]/g, '\\$&') escapes
RegexSpecial ==
    {".", "*", "+", "?", "^", "$", "{", "}", "(", ")", "|", "[", "]", "\\"}

\* blocked.replace(/[.*+?^${}()|[\]\\]/g, '\\$&') (mcp.ts 102)
RECURSIVE EscapeRegex(_)
EscapeRegex(b) ==
    IF b = <<>> THEN <<>>
    ELSE (IF Head(b) \in RegexSpecial THEN <<"\\", Head(b)>> ELSE <<Head(b)>>)
         \o EscapeRegex(Tail(b))

\* every character a command line of the model can hold
AnyChar == AlphaNum \cup RegexSpecial \cup {" ", ";", "&", "-", "/", "_", "\""}

\* the regular expression a pattern source denotes: a backslash makes the
\* next character literal, an unescaped "." matches any character, any other
\* character matches itself
RECURSIVE ParseRegex(_)
ParseRegex(src) ==
    IF src = <<>> THEN <<>>
    ELSE IF Head(src) = "\\" /\ Len(src) >= 2
         THEN <<Lit(src[2])>> \o ParseRegex(SubSeq(src, 3, Len(src)))
         ELSE IF Head(src) = "."
              THEN <<[cs |-> AnyChar, lo |-> 1, hi |-> 1]>> \o ParseRegex(Tail(src))
              ELSE <<Lit(Head(src))>> \o ParseRegex(Tail(src))

\* a character class that leaves out the semicolon
ShellMetaWithoutSemicolon == {"|", "&"}

\* \s and [|&;] of blockedRegex
Whitespace == {" "}
ShellMeta == {"|", "&", ";"}

\* new RegExp(`(?:^|\\s|[|&;])${escaped}(?:\\s|[|&;]|$)`).test(command)
\* (mcp.ts 104-105)
BlockedRegexTest(escaped, command) ==
    \E i \in 0..Len(command) :
        /\ i = 0 \/ command[i] \in Whitespace \cup ShellMeta
        /\ LET e == MatchEnd(command, i + 1, ParseRegex(escaped), 1)
           IN /\ e # 0
              /\ e > Len(command) \/ command[e] \in Whitespace \cup ShellMeta

\* the test of one blocklist entry against the command
\* (mcp.ts 102-105, core/executor.ts 32)
IsBlocked(build, blocked, command) ==
    IF build = "mcp"
    THEN BlockedRegexTest(EscapeRegex(blocked), command)
    ELSE Includes(command, blocked)

\* a loop that keeps the last entry that matches instead of returning on
\* the first
RECURSIVE BlockedIndexLast(_, _, _, _)
BlockedIndexLast(bld, list, cmd, i) ==
    IF i > Len(list) THEN 0
    ELSE LET later == BlockedIndexLast(bld, list, cmd, i + 1)
         IN IF later # 0 THEN later
            ELSE IF IsBlocked(bld, list[i], cmd) THEN i ELSE 0

\* for (const blocked of this.blockedCommands): the index of the entry the
\* loop returns on, or 0 when it runs to its end
RECURSIVE BlockedIndex(_, _, _, _)
BlockedIndex(build, blockedCommands, command, i) ==
    IF i > Len(blockedCommands) THEN 0
    ELSE IF IsBlocked(build, blockedCommands[i], command) THEN i
         ELSE BlockedIndex(build, blockedCommands, command, i + 1)

BlockedPrefix ==
    <<"C", "o", "m", "m", "a", "n", "d", " ", "b", "l", "o", "c", "k", "e",
      "d", ":", " ", "c", "o", "n", "t", "a", "i", "n", "s", " ", "\"">>

\* the result returned for a blocked command (mcp.ts 106-111)
BlockedResult(blocked) ==
    [exitCode |-> 1, stdout |-> <<>>,
     stderr |-> BlockedPrefix \o blocked \o <<"\"">>, redactedCount |-> 0]

TimeoutMessage ==
    <<"C", "o", "m", "m", "a", "n", "d", " ", "t", "i", "m", "e", "o", "u",
      "t", " ", "e", "x", "c", "e", "e", "d", "e", "d">>

\* the result handleExit gives after the timer fired (mcp.ts 168-173)
TimeoutResult ==
    [exitCode |-> 1, stdout |-> <<>>, stderr |-> TimeoutMessage,
     redactedCount |-> 0]

\* an 'error' handler that counts the error as a redaction
ErrorResultCounted(message) ==
    [exitCode |-> 1, stdout |-> <<>>, stderr |-> message, redactedCount |-> 1]

\* the result of the 'error' handler (mcp.ts 202-207)
ErrorResult(message) ==
    [exitCode |-> 1, stdout |-> <<>>, stderr |-> message, redactedCount |-> 0]

\* err.message of a failed spawn and of a kill the kernel refuses
SpawnErrorMessage ==
    <<"s", "p", "a", "w", "n", " ", "/", "b", "i", "n", "/", "s", "h", " ",
      "E", "N", "O", "E", "N", "T">>
KillErrorMessage == <<"k", "i", "l", "l", " ", "E", "P", "E", "R", "M">>

\* the detached option of spawn (mcp.ts 131; core/executor.ts gives none,
\* and the default is false)
Detached(build) == FALSE

\* the names whose value the post-scrub verification still finds
\* (mcp.ts 182-188; core/executor.ts has no verification)
StillPresentUnchecked(build, secrets, combinedOutput) ==
    IF build = "mcp"
    THEN {secrets[i].name : i \in {j \in 1..Len(secrets) : secrets[j].value # <<>>}}
    ELSE {}

StillPresent(build, secrets, combinedOutput) ==
    IF build = "mcp"
    THEN {secrets[i].name : i \in {j \in 1..Len(secrets) :
              secrets[j].value # <<>> /\ Includes(combinedOutput, secrets[j].value)}}
    ELSE {}

\* a normal exit that reports the count of stdout alone
ExitResultStdoutCount(code, out, err, secrets, mode, custom) ==
    LET scrubStdout == Scrub(out, secrets, mode, custom)
        scrubStderr == Scrub(err, secrets, mode, custom)
    IN [exitCode |-> IF code = <<>> THEN 1 ELSE code[1],
        stdout |-> scrubStdout.text,
        stderr |-> scrubStderr.text,
        redactedCount |-> scrubStdout.redactedCount]

\* the result of a normal exit (mcp.ts 178-195): code is <<n>> for the
\* number n and << >> for null
ExitResult(code, out, err, secrets, mode, custom) ==
    LET scrubStdout == Scrub(out, secrets, mode, custom)
        scrubStderr == Scrub(err, secrets, mode, custom)
    IN [exitCode |-> IF code = <<>> THEN 1 ELSE code[1],
        stdout |-> scrubStdout.text,
        stderr |-> scrubStderr.text,
        redactedCount |-> scrubStdout.redactedCount + scrubStderr.redactedCount]

(***************************************************************************)
(* SecretStore (src/unnamed/part_004).  The Map is a sequence of entries   *)
(* in insertion order; an absent result (undefined) is << >>, a present    *)
(* one <<x>>.                                                              *)
(***************************************************************************)
\* the position of name in the Map, or 0
RECURSIVE StoreIndex(_, _, _)
StoreIndex(st, name, i) ==
    IF i > Len(st) THEN 0
    ELSE IF st[i].name = name THEN i ELSE StoreIndex(st, name, i + 1)

\* a set that starts the list of sources again on every call
StoreSetForgetful(st, name, value, source) ==
    LET i == StoreIndex(st, name, 1)
        fresh == [name |-> name, value |-> value, sources |-> <<source>>,
                  activeSource |-> source]
    IN IF i # 0 THEN [st EXCEPT ![i] = fresh] ELSE Append(st, fresh)

\* SecretStore.set (part_004 15-28)
StoreSet(st, name, value, source) ==
    LET i == StoreIndex(st, name, 1)
    IN IF i # 0
       THEN [st EXCEPT ![i] = [name |-> name, value |-> value,
                               sources |-> Append(st[i].sources, source),
                               activeSource |-> source]]
       ELSE Append(st, [name |-> name, value |-> value,
                        sources |-> <<source>>, activeSource |-> source])

\* SecretStore.get (part_004 30-32)
StoreGet(st, name) ==
    LET i == StoreIndex(st, name, 1)
    IN IF i = 0 THEN <<>> ELSE <<st[i].value>>

\* SecretStore.has (part_004 34-36)
StoreHas(st, name) == StoreIndex(st, name, 1) # 0

\* a listing in the order of the last set
RECURSIVE StoreNamesReversed(_)
StoreNamesReversed(st) ==
    IF st = <<>> THEN <<>>
    ELSE Append(StoreNamesReversed(Tail(st)), Head(st).name)

\* SecretStore.names (part_004 38-40)
RECURSIVE StoreNames(_)
StoreNames(st) ==
    IF st = <<>> THEN <<>> ELSE <<Head(st).name>> \o StoreNames(Tail(st))

\* SecretStore.sources (part_004 42-44)
StoreSources(st, name) ==
    LET i == StoreIndex(st, name, 1)
    IN IF i = 0 THEN <<>> ELSE st[i].sources

\* SecretStore.activeSource (part_004 46-48)
StoreActiveSource(st, name) ==
    LET i == StoreIndex(st, name, 1)
    IN IF i = 0 THEN <<>> ELSE <<st[i].activeSource>>

\* the store after the set calls of the list, in order
RECURSIVE StoreAfter(_, _)
StoreAfter(st, calls) ==
    IF calls = <<>> THEN st
    ELSE StoreAfter(StoreSet(st, Head(calls).name, Head(calls).value,
                             Head(calls).source), Tail(calls))

(***************************************************************************)
(* callTool("run_with_secrets") (src/unnamed/part_003 155-196).            *)
(***************************************************************************)
\* the divisor of Math.ceil(waitTime / 1000) (part_003 162)
MsPerSecond == 1000

\* Math.ceil(ms / 1000) for ms >= 0
CeilSeconds(ms) == (ms + MsPerSecond - 1) \div MsPerSecond

DecimalDigits == <<"0", "1", "2", "3", "4", "5", "6", "7", "8", "9">>

\* String(n) of a natural number n, as the template literal formats it
RECURSIVE NumberToString(_)
NumberToString(n) ==
    IF n < 10 THEN <<DecimalDigits[n + 1]>>
    ELSE NumberToString(n \div 10) \o <<DecimalDigits[(n % 10) + 1]>>

\* String(Math.ceil(waitTime / 1000)) of what getWaitTime returned
WaitSeconds(wait) ==
    IF wait.nan THEN <<"N", "a", "N">> ELSE NumberToString(CeilSeconds(wait.ms))

RateLimitPrefix ==
    <<"R", "a", "t", "e", " ", "l", "i", "m", "i", "t", " ", "e", "x", "c",
      "e", "e", "d", "e", "d", ".", " ", "T", "o", "o", " ", "m", "a", "n",
      "y", " ", "c", "o", "m", "m", "a", "n", "d", "s", " ", "r", "e", "q",
      "u", "e", "s", "t", "e", "d", ".", " ", "P", "l", "e", "a", "s", "e",
      " ", "w", "a", "i", "t", " ">>

RateLimitSuffix ==
    <<" ", "s", "e", "c", "o", "n", "d", "s", " ", "b", "e", "f", "o", "r",
      "e", " ", "t", "r", "y", "i", "n", "g", " ", "a", "g", "a", "i", "n",
      ".">>

\* a denial that reports success
RateLimitResultSuccess(wait) ==
    [exitCode |-> 0, stdout |-> <<>>,
     stderr |-> RateLimitPrefix \o WaitSeconds(wait) \o RateLimitSuffix,
     redactedCount |-> 0]

\* the result of a request the limiter denies (part_003 159-164)
RateLimitResult(wait) ==
    [exitCode |-> 1, stdout |-> <<>>,
     stderr |-> RateLimitPrefix \o WaitSeconds(wait) \o RateLimitSuffix,
     redactedCount |-> 0]

\* missingSecrets.join(", ")
RECURSIVE JoinNames(_)
JoinNames(names) ==
    IF names = <<>> THEN <<>>
    ELSE IF Len(names) = 1 THEN Head(names)
         ELSE Head(names) \o <<",", " ">> \o JoinNames(Tail(names))

\* a filter that reports the names the store does hold
MissingSecretsInverted(st, names) ==
    SelectSeq(names, LAMBDA s : StoreHas(st, s))

\* secretNames.filter((s) => !secrets.has(s)) (part_003 173)
MissingSecrets(st, names) ==
    SelectSeq(names, LAMBDA s : ~StoreHas(st, s))

MissingPrefix ==
    <<"S", "e", "c", "r", "e", "t", "s", " ", "n", "o", "t", " ", "f", "o",
      "u", "n", "d", ":", " ">>

\* the result of a request that names unknown secrets (part_003 175-180)
MissingResult(missing) ==
    [exitCode |-> 1, stdout |-> <<>>,
     stderr |-> MissingPrefix \o JoinNames(missing), redactedCount |-> 0]

\* Map.prototype.set on a Map kept as a sequence of [name, value]
MapSet(map, name, value) ==
    IF \E i \in 1..Len(map) : map[i].name = name
    THEN [i \in 1..Len(map) |->
             IF map[i].name = name THEN [name |-> name, value |-> value]
             ELSE map[i]]
    ELSE Append(map, [name |-> name, value |-> value])

\* the loop that builds secretsMap (part_003 184-188): a value that is
\* undefined or the empty string is falsy and is left out
RECURSIVE BuildSecretsMap(_, _, _)
BuildSecretsMap(st, names, map) ==
    IF names = <<>> THEN map
    ELSE LET value == StoreGet(st, Head(names))
         IN BuildSecretsMap(st, Tail(names),
                IF value # <<>> /\ value[1] # <<>>
                THEN MapSet(map, Head(names), value[1]) ELSE map)

(***************************************************************************)
(* State.                                                                  *)
(***************************************************************************)
VARIABLES
    \* ScrubSpec: one call of Scrubber.scrub
    scrubMode,      \* this.mode of the Scrubber
    scrubText,      \* the text argument
    scrubKnown,     \* the knownSecrets argument
    scrubResult,    \* << >> before the call, then <<the ScrubResult>>
    \* the construction of the Scrubber
    customSources,  \* the customPatterns argument of the constructor
    slowProbes,     \* the patterns a probe of which ran over maxDuration
    scrubber,       \* "none", "constructed" or "failed" (the constructor threw)
    customPatterns, \* this.customPatterns
    constructError, \* << >>, or <<the message of the Error thrown>>
    \* one call of CommandExecutor.execute
    build,          \* which CommandExecutor source is built
    blockedCommands,\* this.blockedCommands
    pc,             \* "idle", "blocked", "rejected" or "spawned"
    command,        \* options.command
    secrets,        \* options.secrets
    env,            \* << >>, or <<the entries laid over process.env>>
    stdout,         \* let stdout
    stderr,         \* let stderr
    timedOut,       \* let timedOut
    resolved,       \* let resolved
    result,         \* << >>, or <<what the promise was resolved with>>
    timer,          \* "none", "armed", "fired" or "cleared"
    proc,           \* the child: "none", "failed", "alive" or "dead"
    pgid,           \* the child's process group: "caller" or "own"
    descendant,     \* a process the command started: "none", "alive", "dead"
    exitCode,       \* <<the code the child ended with>>, << >> for null
    pendingError,   \* << >>, or <<the message of an 'error' still to emit>>
    exitEmitted,    \* 'exit' was emitted
    closeEmitted,   \* 'close' was emitted
    warnings,       \* the names console.error warned about
    \* what happened so far
    resolveCount,   \* calls of resolve / returns of a result
    scrubCalls,     \* calls of this.scrubber.scrub
    killCalls,      \* calls of process.kill and proc.kill
    killLog,        \* what each of them aimed at: "group" or "child"
    timersCreated,  \* calls of setTimeout
    spawnCount,     \* calls of spawn
    terminalEvents, \* 'exit', 'close' and 'error' events handled
    \* the RateLimiter
    maxRequests,    \* this.maxRequests
    windowMs,       \* this.windowMs
    timestamps,     \* this.timestamps
    now,            \* Date.now()
    lastCheck,      \* << >>, or <<what the last check() returned>>
    lastWait,       \* << >>, or <<what the last getWaitTime() returned>>
    lastDenied,     \* << >>, or <<the time of the last check() that returned false>>
    waitAsked,      \* << >>, or <<when getWaitTime() was last called and how
                    \* many requests had been admitted by then>>
    admitted,       \* the times at which check() returned true, in order
    \* the server: SecretStore and callTool
    rateEnabled,    \* rateLimiter is not null (config.rateLimit.enabled)
    store,          \* SecretStore.secrets
    setCalls,       \* the set calls made so far: [name, value, source]
    toolName,       \* the name argument of the last callTool, or "none"
    secretNames,    \* args.secrets of the last callTool
    toolResult,     \* << >>, or <<what the last callTool returned by itself>>
    storeReads,     \* calls of secrets.has and secrets.get in the last callTool
    executeCalls,   \* calls of executor.execute
    toolCalls       \* calls of callTool

ctorVars == <<customSources, slowProbes, scrubber, customPatterns,
              constructError>>
scrubVars == <<scrubMode, ctorVars, scrubText, scrubKnown, scrubResult>>
requestVars == <<command, secrets, env>>
configVars == <<build, blockedCommands>>
childVars == <<proc, pgid, descendant, exitCode, pendingError, exitEmitted,
               closeEmitted>>
handlerVars == <<stdout, stderr, timedOut, resolved, result, timer, warnings>>
countVars == <<resolveCount, scrubCalls, killCalls, killLog, timersCreated, spawnCount,
               terminalEvents>>
execVars == <<configVars, pc, requestVars, childVars, handlerVars, countVars>>

rateVars == <<maxRequests, windowMs, timestamps, now, lastCheck, lastWait,
              lastDenied, waitAsked, admitted>>

toolVars == <<rateEnabled, store, setCalls, toolName, secretNames, toolResult,
              storeReads, executeCalls, toolCalls>>

vars == <<scrubVars, execVars, rateVars, toolVars>>

(***************************************************************************)
(* ScrubSpec: Scrubber.scrub on bounded inputs.                            *)
(***************************************************************************)
\* "D" occurs in every placeholder, "*" in every asterisk run
ScrubAlphabet == {"D", "*"}
SecretNames == {<<"K">>, <<"P">>}

\* the Maps over SecretNames, in every insertion order, with values from V
KnownMaps(V) ==
    {<<>>}
    \cup {<<[name |-> n, value |-> v]>> : n \in SecretNames, v \in V}
    \cup {<<[name |-> p[1], value |-> w[1]], [name |-> p[2], value |-> w[2]]>> :
             p \in {q \in SecretNames \X SecretNames : q[1] # q[2]},
             w \in V \X V}

\* new Scrubber(mode, []) returned
PlainScrubber ==
    /\ customSources = <<>> /\ slowProbes = {}
    /\ scrubber = "constructed"
    /\ customPatterns = <<>> /\ constructError = <<>>

\* no call of scrub is in progress
ScrubIdle ==
    /\ scrubText = <<>>
    /\ scrubKnown = <<>>
    /\ scrubResult = <<>>

\* execute was not called yet
ExecIdle ==
    /\ pc = "idle"
    /\ command = <<>> /\ secrets = <<>> /\ env = <<>>
    /\ stdout = <<>> /\ stderr = <<>>
    /\ timedOut = FALSE /\ resolved = FALSE
    /\ result = <<>> /\ timer = "none" /\ warnings = {}
    /\ proc = "none" /\ pgid = "caller" /\ descendant = "none"
    /\ exitCode = <<>> /\ pendingError = <<>>
    /\ exitEmitted = FALSE /\ closeEmitted = FALSE
    /\ resolveCount = 0 /\ scrubCalls = 0 /\ killCalls = 0 /\ killLog = <<>>
    /\ timersCreated = 0 /\ spawnCount = 0 /\ terminalEvents = 0

\* a limiter that was never asked
RateIdle ==
    /\ maxRequests = 1 /\ windowMs = 1
    /\ timestamps = <<>> /\ now = 0
    /\ lastCheck = <<>> /\ lastWait = <<>> /\ lastDenied = <<>>
    /\ waitAsked = <<>>
    /\ admitted = <<>>

\* a server that holds no secret and was never called
ToolIdle ==
    /\ rateEnabled = FALSE
    /\ store = <<>> /\ setCalls = <<>>
    /\ toolName = "none" /\ secretNames = <<>> /\ toolResult = <<>>
    /\ storeReads = 0 /\ executeCalls = 0 /\ toolCalls = 0

ScrubInit ==
    /\ scrubMode \in RedactModes
    /\ PlainScrubber
    /\ scrubText \in StrUpTo(ScrubAlphabet, MaxTextLen)
    /\ scrubKnown \in KnownMaps(StrUpTo(ScrubAlphabet, MaxValLen))
    /\ scrubResult = <<>>
    /\ build = "mcp" /\ blockedCommands = <<>>
    /\ ExecIdle
    /\ RateIdle
    /\ ToolIdle

\* scrubber.scrub(text, knownSecrets) of the Scrubber that was constructed
DoScrub ==
    /\ scrubber = "constructed"
    /\ scrubResult = <<>>
    /\ scrubResult' = <<Scrub(scrubText, scrubKnown, scrubMode, customPatterns)>>
    /\ UNCHANGED <<scrubMode, ctorVars, scrubText, scrubKnown, execVars,
                   rateVars, toolVars>>

ScrubNext == DoScrub

ScrubSpec == ScrubInit /\ [][ScrubNext]_vars

(***************************************************************************)
(* PatternSpec: Scrubber.scrub on texts that hold secret-shaped tokens.    *)
(***************************************************************************)
\* what the texts are made of: a GitHub token, token characters and a
\* separator
PatternPieces == {<<"g", "h", "p", "_", "a">>, <<"a">>, <<"b">>, <<" ">>}

\* the concatenations of at most n pieces
RECURSIVE PieceTexts(_)
PieceTexts(n) ==
    IF n = 0 THEN {<<>>}
    ELSE LET shorter == PieceTexts(n - 1)
         IN shorter \cup {s \o q : s \in shorter, q \in PatternPieces}

\* knownSecrets: empty, or one secret under an upper-case or a lower-case
\* name whose value is or is not shaped like a token
PatternKnown ==
    {<<>>} \cup
    {<<[name |-> n, value |-> v]>> :
        n \in {<<"K">>, <<"g", "h", "p", "_", "t">>},
        v \in {<<"g", "h", "p", "_", "a">>, <<"a">>}}

PatternInit ==
    /\ scrubMode \in RedactModes
    /\ PlainScrubber
    /\ scrubText \in PieceTexts(MaxPieces)
    /\ scrubKnown \in PatternKnown
    /\ scrubResult = <<>>
    /\ build = "mcp" /\ blockedCommands = <<>>
    /\ ExecIdle
    /\ RateIdle
    /\ ToolIdle

PatternNext == DoScrub

PatternSpec == PatternInit /\ [][PatternNext]_vars

(***************************************************************************)
(* ConstructSpec: new Scrubber(mode, customPatterns), then one scrub.      *)
(***************************************************************************)
\* the pattern sources of the model: three that compile, an unterminated
\* group, one whose SyntaxError message holds the word "rejected", and a
\* lone backslash
PatternSources ==
    {<<"a">>, <<"a", ".", "a", ".", "a", ".", "a">>, <<"\\", ".">>,
     <<"(">>, <<"r", "e", "j", "e", "c", "t", "e", "d", "(">>, <<"\\">>}

\* the lists of at most n pattern sources
RECURSIVE SourceLists(_)
SourceLists(n) ==
    IF n = 0 THEN {<<>>}
    ELSE LET shorter == SourceLists(n - 1)
         IN shorter \cup {l \o <<s>> : l \in shorter, s \in PatternSources}

\* texts that are one secret-shaped token of seven characters, shorter
\* ones, and texts that hold such a token among other characters
ConstructTexts ==
    {<<>>, <<"a">>, <<".">>, <<"a", "b", "a">>,
     <<"a", "b", "a", "b", "a", "b", "a">>,
     <<"g", "h", "p", "_", "a", "b", "a">>,
     <<"g", "h", "p", "_", "a", "b">>,
     <<"b", " ", "a", "b", "a", "b", "a", "b", "a">>}

ConstructKnown ==
    {<<>>} \cup
    {<<[name |-> <<"K">>, value |-> v]>> :
        v \in {<<"a", "b", "a", "b", "a", "b", "a">>, <<"a", "b", "a">>, <<"b">>}}

ConstructInit ==
    /\ scrubMode \in RedactModes
    /\ customSources \in SourceLists(MaxPatterns)
    /\ slowProbes = {}
    /\ scrubber = "none"
    /\ customPatterns = <<>> /\ constructError = <<>>
    /\ scrubText \in ConstructTexts
    /\ scrubKnown \in ConstructKnown
    /\ scrubResult = <<>>
    /\ build = "mcp" /\ blockedCommands = <<>>
    /\ ExecIdle
    /\ RateIdle
    /\ ToolIdle

\* new Scrubber(scrubMode, customSources) (scrubber.ts 74-93); slow is the
\* set of the patterns for which a probe ran over maxDuration
Construct(slow) ==
    /\ scrubber = "none"
    /\ slowProbes' = slow
    /\ LET i == FirstRejected(customSources, slow, 1)
       IN IF i = 0
          THEN /\ scrubber' = "constructed"
               /\ customPatterns' =
                      [j \in 1..Len(customSources) |-> ParseRegex(customSources[j])]
               /\ constructError' = <<>>
          ELSE /\ scrubber' = "failed"
               /\ customPatterns' = <<>>
               /\ constructError' =
                      ValidateRegexPattern(customSources[i], i \in slow)
    /\ UNCHANGED <<scrubMode, customSources, scrubText, scrubKnown, scrubResult,
                   execVars, rateVars, toolVars>>

ConstructNext ==
    \/ \E slow \in SUBSET (1..Len(customSources)) : Construct(slow)
    \/ DoScrub

ConstructSpec == ConstructInit /\ [][ConstructNext]_vars

(***************************************************************************)
(* CommandExecutor.execute and the callbacks it registers.                 *)
(***************************************************************************)
\* a done that leaves the timer running
ClearTimeoutForgotten(t) == t

\* clearTimeout(timer), for a timer in state t (mcp.ts 149)
ClearTimeout(t) == IF t = "armed" THEN "cleared" ELSE t

\* a done that forgets to set the flag
MarkResolvedForgotten == FALSE

\* resolved = true (mcp.ts 151)
MarkResolved == TRUE

\* if (!resolved) { resolved = true; resolve(result); } (mcp.ts 150-153)
Resolve(res) ==
    IF ~resolved
    THEN /\ resolved' = MarkResolved
         /\ result' = <<res>>
         /\ resolveCount' = resolveCount + 1
    ELSE UNCHANGED <<resolved, result, resolveCount>>

\* done(result), called while the timer is in state t (mcp.ts 148-154)
DoneAfter(t, res) ==
    /\ timer' = ClearTimeout(t)
    /\ Resolve(res)

Done(res) == DoneAfter(timer, res)

\* handleExit(code) (mcp.ts 164-196, core/executor.ts 81-104)
HandleExit(code) ==
    IF resolved
    THEN UNCHANGED <<resolved, result, resolveCount, timer, warnings, scrubCalls>>
    ELSE IF timedOut
         THEN /\ Done(TimeoutResult)
              /\ UNCHANGED <<warnings, scrubCalls>>
         ELSE LET res == ExitResult(code, stdout, stderr, secrets, scrubMode, customPatterns)
              IN /\ scrubCalls' = scrubCalls + 2
                 /\ warnings' = StillPresent(build, secrets, res.stdout \o res.stderr)
                 /\ Done(res)

\* execute(options) up to the creation of the promise (mcp.ts 96-146).
\* spawn throws for an empty command, which rejects the promise; a spawn that
\* fails (ok = FALSE) leaves proc.pid undefined and emits 'error' later.
ExecuteCall(cmd, sec, ok) ==
    /\ pc = "idle"
    /\ command' = cmd
    /\ secrets' = sec
    /\ LET i == BlockedIndex(build, blockedCommands, cmd, 1)
       IN IF i # 0
          THEN /\ pc' = "blocked"
               /\ result' = <<BlockedResult(blockedCommands[i])>>
               /\ resolveCount' = resolveCount + 1
               /\ UNCHANGED <<env, proc, pgid, pendingError, timer,
                              timersCreated, spawnCount>>
          ELSE /\ env' = <<sec>>
               /\ spawnCount' = spawnCount + 1
               /\ UNCHANGED <<result, resolveCount>>
               /\ IF cmd = <<>>
                  THEN /\ pc' = "rejected"
                       /\ UNCHANGED <<proc, pgid, pendingError, timer,
                                      timersCreated>>
                  ELSE /\ pc' = "spawned"
                       /\ proc' = IF ok THEN "alive" ELSE "failed"
                       /\ pendingError' = IF ok THEN <<>> ELSE <<SpawnErrorMessage>>
                       /\ pgid' = IF Detached(build) THEN "own" ELSE "caller"
                       /\ timer' = "armed"
                       /\ timersCreated' = timersCreated + 1
    /\ UNCHANGED <<scrubVars, configVars, descendant, exitCode, exitEmitted,
                   closeEmitted, stdout, stderr, timedOut, resolved, warnings,
                   scrubCalls, killCalls, killLog, terminalEvents>>

\* execute(options) called directly on a CommandExecutor
Execute(cmd, sec, ok) ==
    /\ ExecuteCall(cmd, sec, ok)
    /\ UNCHANGED <<toolVars, rateVars>>

\* proc.stdout.on("data") and proc.stderr.on("data") (mcp.ts 156-162): the
\* pipes deliver until 'close'
Data(stream, c) ==
    /\ pc = "spawned" /\ proc \in {"alive", "dead"} /\ ~closeEmitted
    /\ \/ /\ stream = "stdout" /\ Len(stdout) < MaxOutLen
          /\ stdout' = Append(stdout, c) /\ UNCHANGED stderr
       \/ /\ stream = "stderr" /\ Len(stderr) < MaxOutLen
          /\ stderr' = Append(stderr, c) /\ UNCHANGED stdout
    /\ UNCHANGED <<toolVars, rateVars, scrubVars, configVars, pc, requestVars, childVars, timedOut,
                   resolved, result, timer, warnings, countVars>>

\* the command starts a process that outlives its shell
Fork ==
    /\ pc = "spawned" /\ proc = "alive" /\ descendant = "none"
    /\ descendant' = "alive"
    /\ UNCHANGED <<toolVars, rateVars, scrubVars, configVars, pc, requestVars, proc, pgid, exitCode,
                   pendingError, exitEmitted, closeEmitted, handlerVars, countVars>>

\* that process ends by itself
DescendantExit ==
    /\ pc = "spawned" /\ descendant = "alive"
    /\ descendant' = "dead"
    /\ UNCHANGED <<toolVars, rateVars, scrubVars, configVars, pc, requestVars, proc, pgid, exitCode,
                   pendingError, exitEmitted, closeEmitted, handlerVars, countVars>>

\* the child ends by itself with an exit code
ProcExit(code) ==
    /\ pc = "spawned" /\ proc = "alive"
    /\ proc' = "dead"
    /\ exitCode' = <<code>>
    /\ UNCHANGED <<toolVars, rateVars, scrubVars, configVars, pc, requestVars, pgid, descendant,
                   pendingError, exitEmitted, closeEmitted, handlerVars, countVars>>

\* the child is ended by a signal that someone else sends: it leaves no
\* exit code
ProcKilled ==
    /\ pc = "spawned" /\ proc = "alive"
    /\ proc' = "dead"
    /\ exitCode' = <<>>
    /\ UNCHANGED <<toolVars, rateVars, scrubVars, configVars, pc, requestVars, pgid,
                   descendant, pendingError, exitEmitted, closeEmitted,
                   handlerVars, countVars>>

\* proc.on("exit", handleExit) (mcp.ts 199)
EmitExit ==
    /\ pc = "spawned" /\ proc = "dead" /\ ~exitEmitted
    /\ exitEmitted' = TRUE
    /\ terminalEvents' = terminalEvents + 1
    /\ HandleExit(exitCode)
    /\ UNCHANGED <<toolVars, rateVars, scrubVars, configVars, pc, requestVars, proc, pgid, descendant,
                   exitCode, pendingError, closeEmitted, stdout, stderr, timedOut,
                   killCalls, killLog, timersCreated, spawnCount>>

\* proc.on("close", handleExit) (mcp.ts 198): 'close' follows 'exit', or the
\* 'error' of a failed spawn, once the pipes are closed; a failed spawn
\* reports the negated errno as the code
EmitClose ==
    /\ pc = "spawned" /\ ~closeEmitted /\ descendant # "alive"
    /\ exitEmitted \/ (proc = "failed" /\ pendingError = <<>>)
    /\ closeEmitted' = TRUE
    /\ terminalEvents' = terminalEvents + 1
    /\ HandleExit(IF proc = "failed" THEN <<-2>> ELSE exitCode)
    /\ UNCHANGED <<toolVars, rateVars, scrubVars, configVars, pc, requestVars, proc, pgid, descendant,
                   exitCode, pendingError, exitEmitted, stdout, stderr, timedOut,
                   killCalls, killLog, timersCreated, spawnCount>>

\* proc.on("error", ...) for the error of a failed spawn (mcp.ts 201-208)
EmitError ==
    /\ pc = "spawned" /\ pendingError # <<>>
    /\ pendingError' = <<>>
    /\ terminalEvents' = terminalEvents + 1
    /\ Done(ErrorResult(pendingError[1]))
    /\ UNCHANGED <<toolVars, rateVars, scrubVars, configVars, pc, requestVars, proc, pgid, descendant,
                   exitCode, exitEmitted, closeEmitted, stdout, stderr, timedOut,
                   warnings, scrubCalls, killCalls, killLog, timersCreated,
                   spawnCount>>

\* the setTimeout callback (mcp.ts 134-146, core/executor.ts 60-63).
\* process.kill(-pid) reaches the group whose id is the child's pid and
\* throws when there is no such group; proc.kill reaches the child, does
\* nothing to a child that is gone, and emits 'error' at once when the
\* kernel refuses the signal (refused = TRUE).
TimerFire(refused) ==
    /\ pc = "spawned" /\ timer = "armed"
    /\ timedOut' = TRUE
    /\ LET groupTried == build = "mcp" /\ proc # "failed"
           groupDelivered == /\ groupTried /\ pgid = "own"
                             /\ proc = "alive" \/ descendant = "alive"
           childTried == build = "core" \/ (groupTried /\ ~groupDelivered)
       IN /\ killCalls' = killCalls + (IF groupTried THEN 1 ELSE 0)
                                    + (IF childTried THEN 1 ELSE 0)
          /\ killLog' = killLog \o (IF groupTried THEN <<"group">> ELSE <<>>)
                                \o (IF childTried THEN <<"child">> ELSE <<>>)
          /\ IF groupDelivered
             THEN /\ proc' = "dead"
                  /\ exitCode' = IF proc = "alive" THEN <<>> ELSE exitCode
                  /\ descendant' = IF descendant = "alive" THEN "dead" ELSE descendant
                  /\ timer' = "fired"
                  /\ UNCHANGED <<resolved, result, resolveCount, terminalEvents>>
             ELSE IF childTried /\ proc = "alive"
                  THEN IF refused
                       THEN /\ terminalEvents' = terminalEvents + 1
                            /\ DoneAfter("fired", ErrorResult(KillErrorMessage))
                            /\ UNCHANGED <<proc, exitCode, descendant>>
                       ELSE /\ proc' = "dead"
                            /\ exitCode' = <<>>
                            /\ timer' = "fired"
                            /\ UNCHANGED <<descendant, resolved, result,
                                           resolveCount, terminalEvents>>
                  ELSE /\ timer' = "fired"
                       /\ UNCHANGED <<proc, exitCode, descendant, resolved, result,
                                      resolveCount, terminalEvents>>
    /\ UNCHANGED <<toolVars, rateVars, scrubVars, configVars, pc, requestVars, pgid, pendingError,
                   exitEmitted, closeEmitted, stdout, stderr, warnings,
                   scrubCalls, timersCreated, spawnCount>>

(***************************************************************************)
(* ExecSpec: one execute call from request to result.                      *)
(***************************************************************************)
ExecCommands == {<<>>, <<"l", "s">>, <<"s", "u">>}
ExecSecrets ==
    {<<>>,
     <<[name |-> <<"K">>, value |-> <<"D">>]>>,
     <<[name |-> <<"K">>, value |-> <<"*">>]>>,
     <<[name |-> <<"K">>, value |-> <<"D", "D">>]>>}
ExitCodes == {0, 2}

ExecInit ==
    /\ scrubMode \in RedactModes
    /\ PlainScrubber
    /\ ScrubIdle
    /\ build \in Builds
    /\ blockedCommands = << <<"s", "u">> >>
    /\ ExecIdle
    /\ RateIdle
    /\ ToolIdle

ExecNext ==
    \/ \E cmd \in ExecCommands, sec \in ExecSecrets, ok \in BOOLEAN :
          Execute(cmd, sec, ok)
    \/ \E stream \in {"stdout", "stderr"}, c \in ScrubAlphabet : Data(stream, c)
    \/ Fork
    \/ DescendantExit
    \/ \E code \in ExitCodes : ProcExit(code)
    \/ ProcKilled
    \/ EmitExit
    \/ EmitClose
    \/ EmitError
    \/ \E refused \in BOOLEAN : TimerFire(refused)

ExecSpec == ExecInit /\ [][ExecNext]_vars

(***************************************************************************)
(* BlockSpec: the admission part of execute on bounded command lines.      *)
(***************************************************************************)
CmdAlphabet == {"s", ".", " ", ";"}
BlockEntries == {<<"s">>, <<".">>, <<"s", ".">>, <<"s", " ", "s">>}
BlockLists ==
    {<<>>} \cup {<<b>> : b \in BlockEntries}
           \cup {<<b1, b2>> : b1 \in BlockEntries, b2 \in BlockEntries}

BlockInit ==
    /\ scrubMode = "placeholder"
    /\ PlainScrubber
    /\ ScrubIdle
    /\ build \in Builds
    /\ blockedCommands \in BlockLists
    /\ ExecIdle
    /\ RateIdle
    /\ ToolIdle

BlockNext ==
    \E cmd \in StrUpTo(CmdAlphabet, MaxCmdLen), ok \in BOOLEAN :
        Execute(cmd, <<>>, ok)

BlockSpec == BlockInit /\ [][BlockNext]_vars

(***************************************************************************)
(* RateLimiter (RateSpec).                                                 *)
(***************************************************************************)
\* a filter that keeps a timestamp exactly windowMs old
PruneInclusive(ts, t, w) == SelectSeq(ts, LAMBDA x : t - x <= w)

\* this.timestamps.filter(t => now - t < this.windowMs) (part_003 41, 57)
Prune(ts, t, w) == SelectSeq(ts, LAMBDA x : t - x < w)

\* a comparison that lets one request too many through
AtCapacityOffByOne(ts, max) == Len(ts) > max

\* this.timestamps.length >= this.maxRequests (part_003 43)
AtCapacity(ts, max) == Len(ts) >= max

\* a push that also records the millisecond before
PushWithEarlier(ts, t) == Append(Append(ts, t - 1), t)

\* a push that puts the newest timestamp first
PushFront(ts, t) == <<t>> \o ts

\* a check that admits without recording anything
PushNothing(ts, t) == ts

\* this.timestamps.push(now) (part_003 47)
Push(ts, t) == Append(ts, t)

\* RateLimiter.check (part_003 37-49)
Check ==
    /\ LET kept == Prune(timestamps, now, windowMs)
       IN IF AtCapacity(kept, maxRequests)
          THEN /\ timestamps' = kept
               /\ lastCheck' = <<FALSE>>
               /\ lastDenied' = <<now>>
               /\ UNCHANGED admitted
          ELSE /\ timestamps' = Push(kept, now)
               /\ lastCheck' = <<TRUE>>
               /\ admitted' = Append(admitted, now)
               /\ UNCHANGED lastDenied
    /\ UNCHANGED <<maxRequests, windowMs, now, lastWait, waitAsked, scrubVars,
                   execVars, toolVars>>

\* a getWaitTime that reports one millisecond less than what remains
WaitTimeOneShort(kept, t, w, max) ==
    IF Len(kept) < max THEN [nan |-> FALSE, ms |-> 0]
    ELSE IF kept = <<>> THEN [nan |-> TRUE, ms |-> 0]
    ELSE LET remaining == w - (t - kept[1]) - 1
         IN [nan |-> FALSE, ms |-> IF remaining > 0 THEN remaining ELSE 0]

\* what getWaitTime returns once the list is filtered (part_003 59-64).
\* With maxRequests = 0 the list is empty, this.timestamps[0] is undefined
\* and the result is NaN.
WaitTime(kept, t, w, max) ==
    IF Len(kept) < max THEN [nan |-> FALSE, ms |-> 0]
    ELSE IF kept = <<>> THEN [nan |-> TRUE, ms |-> 0]
    ELSE LET remaining == w - (t - kept[1])
         IN [nan |-> FALSE, ms |-> IF remaining > 0 THEN remaining ELSE 0]

\* RateLimiter.getWaitTime (part_003 55-65)
GetWaitTime ==
    /\ LET kept == Prune(timestamps, now, windowMs)
       IN /\ timestamps' = kept
          /\ lastWait' = <<WaitTime(kept, now, windowMs, maxRequests)>>
    /\ waitAsked' = <<[at |-> now, admissions |-> Len(admitted)]>>
    /\ UNCHANGED <<maxRequests, windowMs, now, lastCheck, lastDenied, admitted,
                   scrubVars, execVars, toolVars>>

\* a millisecond passes
Tick ==
    /\ now < MaxTime
    /\ now' = now + 1
    /\ UNCHANGED <<maxRequests, windowMs, timestamps, lastCheck, lastWait,
                   lastDenied, waitAsked, admitted, scrubVars, execVars,
                   toolVars>>

RateInit ==
    /\ scrubMode = "placeholder"
    /\ PlainScrubber
    /\ ScrubIdle
    /\ build = "mcp" /\ blockedCommands = <<>>
    /\ ExecIdle
    /\ ToolIdle
    /\ maxRequests \in 0..MaxRequestsBound
    /\ windowMs \in 1..MaxWindow
    /\ timestamps = <<>> /\ now = 0
    /\ lastCheck = <<>> /\ lastWait = <<>> /\ lastDenied = <<>>
    /\ waitAsked = <<>>
    /\ admitted = <<>>

RateNext == Check \/ GetWaitTime \/ Tick

RateSpec == RateInit /\ [][RateNext]_vars

(***************************************************************************)
(* StoreSpec: a SecretStore under a bounded sequence of set calls.         *)
(***************************************************************************)
StoreValues == {<<>>, <<"D">>}
\* the env files a value is read from
EnvFiles == {<<"e">>, <<"l">>}

\* store.set(name, value, source)
SetSecret(name, value, source) ==
    /\ toolCalls = 0 /\ Len(setCalls) < MaxSets
    /\ store' = StoreSet(store, name, value, source)
    /\ setCalls' = Append(setCalls,
                          [name |-> name, value |-> value, source |-> source])
    /\ UNCHANGED <<rateEnabled, toolName, secretNames, toolResult, storeReads,
                   executeCalls, toolCalls, scrubVars, execVars, rateVars>>

StoreInit ==
    /\ scrubMode = "placeholder"
    /\ PlainScrubber
    /\ ScrubIdle
    /\ build = "mcp" /\ blockedCommands = <<>>
    /\ ExecIdle
    /\ RateIdle
    /\ ToolIdle

StoreNext ==
    \E name \in SecretNames, value \in StoreValues, source \in EnvFiles :
        SetSecret(name, value, source)

StoreSpec == StoreInit /\ [][StoreNext]_vars

(***************************************************************************)
(* ToolSpec: callTool of a server whose secrets are loaded.                *)
(***************************************************************************)
\* case "run_with_secrets" (part_003 155-196).  Date.now() may move on by
\* elapsed between check() and getWaitTime(); ok tells whether spawn succeeds.
CallRunWithSecrets(cmd, names, elapsed, ok) ==
    /\ toolCalls < MaxCalls
    /\ toolCalls' = toolCalls + 1
    /\ toolName' = "run_with_secrets"
    /\ secretNames' = names
    /\ LET kept == Prune(timestamps, now, windowMs)
           limited == rateEnabled /\ AtCapacity(kept, maxRequests)
           missing == MissingSecrets(store, names)
       IN IF limited
          THEN /\ now + elapsed <= MaxTime
               /\ now' = now + elapsed
               /\ LET later == Prune(kept, now + elapsed, windowMs)
                      wait == WaitTime(later, now + elapsed, windowMs, maxRequests)
                  IN /\ timestamps' = later
                     /\ lastWait' = <<wait>>
                     /\ waitAsked' = <<[at |-> now + elapsed,
                                       admissions |-> Len(admitted)]>>
                     /\ toolResult' = <<RateLimitResult(wait)>>
               /\ lastCheck' = <<FALSE>>
               /\ lastDenied' = <<now>>
               /\ storeReads' = 0
               /\ UNCHANGED <<admitted, executeCalls, execVars, scrubVars>>
          ELSE /\ elapsed = 0
               /\ IF rateEnabled
                  THEN /\ timestamps' = Push(kept, now)
                       /\ lastCheck' = <<TRUE>>
                       /\ admitted' = Append(admitted, now)
                  ELSE UNCHANGED <<timestamps, lastCheck, admitted>>
               /\ UNCHANGED <<now, lastWait, lastDenied, waitAsked>>
               /\ IF missing # <<>>
                  THEN /\ toolResult' = <<MissingResult(missing)>>
                       /\ storeReads' = Len(names)
                       /\ UNCHANGED <<executeCalls, execVars, scrubVars>>
                  ELSE /\ toolResult' = <<>>
                       /\ storeReads' = 2 * Len(names)
                       /\ executeCalls' = executeCalls + 1
                       /\ ExecuteCall(cmd, BuildSecretsMap(store, names, <<>>), ok)
    /\ UNCHANGED <<maxRequests, windowMs, rateEnabled, store, setCalls>>

\* case "list_secrets" (part_003 142-143)
CallListSecrets ==
    /\ toolCalls < MaxCalls
    /\ toolCalls' = toolCalls + 1
    /\ toolName' = "list_secrets"
    /\ secretNames' = <<>>
    /\ toolResult' = <<[secrets |-> StoreNames(store)]>>
    /\ storeReads' = 0
    /\ UNCHANGED <<rateEnabled, store, setCalls, executeCalls, scrubVars,
                   execVars, rateVars>>

\* case "check_secret_exists" (part_003 145-153); null is << >>
CallCheckSecretExists(name) ==
    /\ toolCalls < MaxCalls
    /\ toolCalls' = toolCalls + 1
    /\ toolName' = "check_secret_exists"
    /\ secretNames' = <<name>>
    /\ LET exists == StoreHas(store, name)
       IN toolResult' =
              <<[exists |-> exists,
                 sources |-> IF exists THEN StoreSources(store, name) ELSE <<>>,
                 activeSource |-> IF exists THEN StoreActiveSource(store, name)
                                  ELSE <<>>]>>
    /\ storeReads' = 1
    /\ UNCHANGED <<rateEnabled, store, setCalls, executeCalls, scrubVars,
                   execVars, rateVars>>

\* what loadSecrets may have read: nothing, one file, or two files of which
\* the second overrides K and the first defines P as the empty string
ToolLoads ==
    {<<>>,
     <<[name |-> <<"K">>, value |-> <<"D">>, source |-> <<"e">>]>>,
     <<[name |-> <<"K">>, value |-> <<"D">>, source |-> <<"e">>],
       [name |-> <<"P">>, value |-> <<>>, source |-> <<"e">>],
       [name |-> <<"K">>, value |-> <<"*">>, source |-> <<"l">>]>>}

\* args.secrets: Q and R are names no env file defines
ToolRequests ==
    {<<>>, << <<"K">> >>, << <<"K">>, <<"P">> >>,
     << <<"R">>, <<"K">>, <<"Q">> >>}

\* args.command: one command that runs and one the blocklist holds
ToolCommands == {<<"l", "s">>, <<"s", "u">>}

ToolInit ==
    /\ scrubMode = "placeholder"
    /\ PlainScrubber
    /\ ScrubIdle
    /\ build = "mcp" /\ blockedCommands = << <<"s", "u">> >>
    /\ ExecIdle
    /\ rateEnabled \in BOOLEAN
    /\ IF rateEnabled
       THEN maxRequests \in 0..MaxRequestsBound /\ windowMs \in 1..MaxWindow
       ELSE maxRequests = 1 /\ windowMs = 1
    /\ timestamps = <<>> /\ now = 0
    /\ lastCheck = <<>> /\ lastWait = <<>> /\ lastDenied = <<>>
    /\ waitAsked = <<>>
    /\ admitted = <<>>
    /\ setCalls \in ToolLoads
    /\ store = StoreAfter(<<>>, setCalls)
    /\ toolName = "none" /\ secretNames = <<>> /\ toolResult = <<>>
    /\ storeReads = 0 /\ executeCalls = 0 /\ toolCalls = 0

ToolNext ==
    \/ \E cmd \in ToolCommands, names \in ToolRequests, elapsed \in {0, 1} :
          CallRunWithSecrets(cmd, names, elapsed, TRUE)
    \/ CallListSecrets
    \/ \E name \in SecretNames \cup {<<"Q">>} : CallCheckSecretExists(name)
    \/ Tick

ToolSpec == ToolInit /\ [][ToolNext]_vars

(***************************************************************************)
(* Claims about Scrubber.scrub (ScrubSpec).                                *)
(***************************************************************************)
\* C1: for every text T and known-secrets map M, scrub(T, M).text holds no
\* literal occurrence of a non-empty value of M that occurred in T, in every
\* redaction mode.
C1_NoKnownValueSurvives ==
    scrubResult # <<>> =>
        \A i \in 1..Len(scrubKnown) :
            (scrubKnown[i].value # <<>> /\ Includes(scrubText, scrubKnown[i].value))
                => ~Includes(scrubResult[1].text, scrubKnown[i].value)

\* C17: in placeholder mode a known value that occurs in the text and is
\* itself a match of a built-in pattern appears in the result as
\* [REDACTED:<its name>]: the later passes leave that placeholder alone.
C17_KnownNameKept ==
    (/\ scrubResult # <<>> /\ scrubMode = "placeholder" /\ Len(scrubKnown) = 1
     /\ Includes(scrubText, scrubKnown[1].value)
     /\ \E i \in 1..Len(BuiltinPatterns) :
            MatchAll(scrubKnown[1].value, BuiltinPatterns[i].pattern)
                = <<scrubKnown[1].value>>)
        => Includes(scrubResult[1].text,
                    RedactedPrefix \o scrubKnown[1].name \o <<"]">>)

\* the text as it stands when the loop over knownSecrets reaches entry i
TextBeforeEntry(i) ==
    KnownPass([text |-> scrubText, redactedCount |-> 0],
              SubSeq(scrubKnown, 1, i - 1), 1, scrubMode).text

\* the characters of a string
CharsOf(s) == {s[k] : k \in 1..Len(s)}

\* C18: the known-value pass adds exactly one to redactedCount for each name
\* whose non-empty value occurs in the text when its turn comes, however
\* often it occurs, and replaces every occurrence: none is left right after
\* the turn of a value whose replacement shares no character with it.
C18_KnownPassCountsNames ==
    scrubResult # <<>> =>
        LET pass == KnownPass([text |-> scrubText, redactedCount |-> 0],
                              scrubKnown, 1, scrubMode)
        IN /\ pass.redactedCount =
                 Cardinality({i \in 1..Len(scrubKnown) :
                     /\ scrubKnown[i].value # <<>>
                     /\ Includes(TextBeforeEntry(i), scrubKnown[i].value)})
           /\ \A i \in 1..Len(scrubKnown) :
                 (/\ scrubKnown[i].value # <<>>
                  /\ CharsOf(scrubKnown[i].value)
                        \cap CharsOf(Redact(scrubMode, scrubKnown[i].value,
                                            scrubKnown[i].name)) = {})
                    => ~Includes(TextBeforeEntry(i + 1), scrubKnown[i].value)
           /\ scrubResult[1] = pass

\* a value that occurs three times was counted once
C18_Witness ==
    /\ scrubResult # <<>> /\ Len(scrubKnown) = 1
    /\ scrubKnown[1].value = <<"*">> /\ scrubText = <<"*", "*", "*">>
    /\ scrubMode = "placeholder"
    /\ scrubResult[1].redactedCount = 1
    /\ ~Includes(scrubResult[1].text, <<"*">>)

\* C19: redactedCount is at least the number of names of M whose non-empty
\* value occurs in the original text.
C19_CountCoversEveryName ==
    scrubResult # <<>> =>
        scrubResult[1].redactedCount >=
            Cardinality({scrubKnown[i].name : i \in {j \in 1..Len(scrubKnown) :
                /\ scrubKnown[j].value # <<>>
                /\ Includes(scrubText, scrubKnown[j].value)}})

\* every match of the pattern in t, from position pos on, replaced where
\* it stands
RECURSIVE ReplaceSpans(_, _, _, _, _)
ReplaceSpans(t, pos, items, name, mode) ==
    LET starts == {p \in pos..Len(t) : MatchEnd(t, p, items, 1) > p}
    IN IF starts = {} THEN SubSeq(t, pos, Len(t))
       ELSE LET first == CHOOSE p \in starts : \A q \in starts : p <= q
                e == MatchEnd(t, first, items, 1)
            IN SubSeq(t, pos, first - 1)
               \o Redact(mode, SubSeq(t, first, e - 1), name)
               \o ReplaceSpans(t, e, items, name, mode)

\* rule after rule, every match replaced in full and each match counted
RECURSIVE EveryMatchReplaced(_, _)
EveryMatchReplaced(acc, i) ==
    IF i > Len(BuiltinPatterns) THEN acc
    ELSE EveryMatchReplaced(
            [text |-> ReplaceSpans(acc.text, 1, BuiltinPatterns[i].pattern,
                                   BuiltinPatterns[i].name, scrubMode),
             redactedCount |-> acc.redactedCount
                 + Len(MatchAll(acc.text, BuiltinPatterns[i].pattern))],
            i + 1)

\* C20: in the built-in pass every match of a rule is replaced in full by
\* its redaction, text that was no match is left as it was, and
\* redactedCount grows by the number of matches.
C20_EveryMatchReplacedInFull ==
    (scrubResult # <<>> /\ scrubKnown = <<>>) =>
        scrubResult[1] =
            EveryMatchReplaced([text |-> scrubText, redactedCount |-> 0], 1)

(***************************************************************************)
(* Claims about one execute call (ExecSpec).                               *)
(***************************************************************************)
\* C2: on every terminal path the returned stdout and stderr hold no literal
\* occurrence of a non-empty value of the injected secrets map.
C2_ResultFreeOfSecrets ==
    result # <<>> =>
        \A i \in 1..Len(secrets) :
            secrets[i].value # <<>> =>
                /\ ~Includes(result[1].stdout, secrets[i].value)
                /\ ~Includes(result[1].stderr, secrets[i].value)

\* C3: the promise is resolved exactly once: the first 'exit', 'close' or
\* 'error' event handled commits the result, and no later event resolves
\* again or changes the result.
C3_ResolvedExactlyOnce ==
    /\ [](resolveCount <= 1)
    /\ [](terminalEvents >= 1 => (resolveCount = 1 /\ resolved /\ result # <<>>))
    /\ [][result # <<>> => result' = result]_vars

\* a second terminal event was handled after the first resolved the promise
C3_Witness ==
    /\ terminalEvents >= 2 /\ resolved /\ resolveCount = 1
    /\ exitEmitted /\ closeEmitted

\* C4: when the timer fires before the execution has resolved, the final
\* result is exactly the timeout result and no scrub pass is run, whatever
\* events follow the timer.
C4_TimeoutResultAlways ==
    (timedOut /\ result # <<>>) =>
        (result[1] = TimeoutResult /\ scrubCalls = 0)

\* C5: the command runs in its own process group and the kill on timeout
\* reaches the whole group: after the timer fired neither the child nor a
\* process it started is still running.
C5_GroupKilledOnTimeout ==
    (timer = "fired" /\ proc # "failed") =>
        (pgid = "own" /\ proc # "alive" /\ descendant # "alive")

\* C6: at most one timer exists per execution, a resolved execution has no
\* timer armed, and no kill is sent once the execution has resolved.
C6_TimerCancelledOnResolve ==
    /\ [](timersCreated <= 1)
    /\ [](resolved => timer # "armed")
    /\ [][resolved => killCalls' = killCalls]_vars

\* the execution resolved through an event while its timer was still
\* pending, and the timer was cancelled
C6_Witness == resolved /\ timer = "cleared" /\ killCalls = 0

(***************************************************************************)
(* Claims about the blocklist check (BlockSpec).                           *)
(***************************************************************************)
\* the characters that may bound a whole token
TokenBoundary == {" ", "|", "&", ";"}

\* b occurs in c as a whole token: each side of the occurrence is the start
\* or end of c or a boundary character
WholeToken(b, c) ==
    \E k \in 0..(Len(c) - Len(b)) :
        /\ SubSeq(c, k + 1, k + Len(b)) = b
        /\ k = 0 \/ c[k] \in TokenBoundary
        /\ k + Len(b) = Len(c) \/ c[k + Len(b) + 1] \in TokenBoundary

SomeWholeToken ==
    \E i \in 1..Len(blockedCommands) : WholeToken(blockedCommands[i], command)

\* C7: a command that holds a blocklist entry as a whole token is rejected.
C7_WholeTokenRejected ==
    (pc # "idle" /\ SomeWholeToken) => pc = "blocked"

\* a command rejected for an entry that a shell metacharacter bounds
C7_Witness ==
    /\ pc = "blocked" /\ build = "mcp"
    /\ blockedCommands = << <<"s", ".">> >>
    /\ command = <<"s", ";", "s", ".">>

\* C8: a command that holds blocklist entries only inside longer tokens, and
\* none as a whole token, is not rejected as blocked.
C8_SubstringNotRejected ==
    (/\ pc # "idle"
     /\ \E i \in 1..Len(blockedCommands) : Includes(command, blockedCommands[i])
     /\ ~SomeWholeToken)
        => pc # "blocked"

\* C9: a command that matches the blocklist is answered at once with exit
\* code 1, empty stdout, count 0 and a stderr naming the first entry, in list
\* order, that matched; nothing is spawned, no timer is started and no
\* environment is built.
C9_BlockedResult ==
    (pc # "idle"
     /\ \E i \in 1..Len(blockedCommands) :
            IsBlocked(build, blockedCommands[i], command))
        => LET first == CHOOSE i \in 1..Len(blockedCommands) :
                            /\ IsBlocked(build, blockedCommands[i], command)
                            /\ \A j \in 1..(i - 1) :
                                   ~IsBlocked(build, blockedCommands[j], command)
           IN /\ pc = "blocked"
              /\ result = <<[exitCode |-> 1, stdout |-> <<>>,
                             stderr |-> BlockedPrefix \o blockedCommands[first]
                                        \o <<"\"">>,
                             redactedCount |-> 0]>>
              /\ spawnCount = 0 /\ timersCreated = 0 /\ timer = "none"
              /\ env = <<>> /\ proc = "none"

\* a command that two different entries of the list match
C9_Witness ==
    /\ pc = "blocked" /\ Len(blockedCommands) = 2
    /\ blockedCommands[1] # blockedCommands[2]
    /\ IsBlocked(build, blockedCommands[1], command)
    /\ IsBlocked(build, blockedCommands[2], command)

(***************************************************************************)
(* Claims about the RateLimiter (RateSpec).                                *)
(***************************************************************************)
\* the admissions at the instants a, a+1, .., a+windowMs-1
AdmittedInWindow(a) ==
    {i \in 1..Len(admitted) : a <= admitted[i] /\ admitted[i] < a + windowMs}

\* the admissions at the instants a, a+1, .., a+windowMs: an interval of
\* length windowMs with both ends
AdmittedInClosedWindow(a) ==
    {i \in 1..Len(admitted) : a <= admitted[i] /\ admitted[i] <= a + windowMs}

\* C10 as stated: in any time interval of length windowMs at most
\* maxRequests calls of check() returned true.
C10_AnyIntervalOfWindowLength ==
    \A a \in 0..MaxTime : Cardinality(AdmittedInClosedWindow(a)) <= maxRequests

\* C10 amended: in any half-open interval [a, a + windowMs) at most
\* maxRequests calls of check() returned true.
C10_WindowNeverExceeded ==
    \A a \in 0..MaxTime : Cardinality(AdmittedInWindow(a)) <= maxRequests

\* a call was denied, and more than maxRequests calls were admitted overall
C10_Witness ==
    /\ maxRequests >= 1 /\ windowMs >= 2
    /\ lastCheck = <<FALSE>>
    /\ Len(admitted) > maxRequests

\* C11: a check() that returns false leaves the stored timestamp sequence
\* as it was before the call.
C11_DeniedLeavesTimestamps ==
    [][(Check /\ lastCheck' = <<FALSE>>) => timestamps' = timestamps]_vars

\* a call was denied while timestamps were stored and time had moved on
\* since the oldest of them
C11_Witness ==
    /\ lastCheck = <<FALSE>> /\ lastDenied # <<>>
    /\ timestamps # <<>> /\ lastDenied[1] > timestamps[1]

\* C12: with maxRequests >= 1, a check() made once windowMs has elapsed
\* since the oldest retained admission returns true.
C12_ReadmittedAfterWindow ==
    [][(/\ Check /\ maxRequests >= 1
        /\ (timestamps # <<>> => now - timestamps[1] >= windowMs))
            => lastCheck' = <<TRUE>>]_vars

\* a caller that was denied is admitted again exactly windowMs after the
\* admission that filled the window
C12_Witness ==
    /\ maxRequests = 1 /\ lastCheck = <<TRUE>> /\ Len(admitted) >= 2
    /\ lastDenied # <<>> /\ lastDenied[1] > admitted[1]
    /\ admitted[2] = admitted[1] + windowMs
    /\ lastDenied[1] < admitted[2]

(***************************************************************************)
(* Claims about callTool (ToolSpec).                                       *)
(***************************************************************************)
\* the last callTool was a run_with_secrets that the limiter denied
RunDenied ==
    toolName = "run_with_secrets" /\ rateEnabled /\ lastCheck = <<FALSE>>

\* the last callTool was a run_with_secrets that passed the limiter, or met
\* none
RunAdmitted ==
    toolName = "run_with_secrets" /\ (rateEnabled => lastCheck = <<TRUE>>)

\* the requested names no entry of the store carries, in request order
RequestedButAbsent ==
    SelectSeq(secretNames,
              LAMBDA s : \A i \in 1..Len(store) : store[i].name # s)

\* C13: a run_with_secrets request that the enabled limiter denies returns
\* exit code 1, empty stdout, count 0 and a stderr stating the wait time;
\* no secret is read from the store and execute is not invoked.
C13_DeniedRequest ==
    /\ [](RunDenied =>
            /\ lastWait # <<>>
            /\ toolResult =
                  <<[exitCode |-> 1, stdout |-> <<>>,
                     stderr |-> RateLimitPrefix \o WaitSeconds(lastWait[1])
                                \o RateLimitSuffix,
                     redactedCount |-> 0]>>
            /\ storeReads = 0)
    /\ [][(toolCalls' # toolCalls /\ RunDenied')
            => (executeCalls' = executeCalls /\ spawnCount' = spawnCount
                /\ pc' = pc /\ env' = env)]_vars

\* a request was denied after an earlier one had reached execute, and the
\* caller is told to wait
C13_Witness ==
    /\ RunDenied /\ executeCalls = 1 /\ secretNames # <<>>
    /\ lastWait # <<>> /\ lastWait[1].ms >= 1

\* C14 as stated: every run_with_secrets request that names a secret the
\* store does not hold gets exit code 1 and a stderr that lists exactly the
\* requested names that are missing, in request order.
C14_AnyMissingListed ==
    (toolName = "run_with_secrets" /\ RequestedButAbsent # <<>>) =>
        /\ toolResult # <<>>
        /\ toolResult[1].exitCode = 1
        /\ toolResult[1].stderr = MissingPrefix \o JoinNames(RequestedButAbsent)

\* C14 amended: a run_with_secrets request that the limiter does not deny
\* and that names a secret the store does not hold is rejected before execute
\* is invoked, with exit code 1 and a stderr that lists exactly the requested
\* names that are missing, in request order.
C14_MissingSecretsRejected ==
    /\ []((RunAdmitted /\ RequestedButAbsent # <<>>) =>
            toolResult =
                <<[exitCode |-> 1, stdout |-> <<>>,
                   stderr |-> MissingPrefix \o JoinNames(RequestedButAbsent),
                   redactedCount |-> 0]>>)
    /\ [][(toolCalls' # toolCalls /\ RunAdmitted' /\ RequestedButAbsent' # <<>>)
            => (executeCalls' = executeCalls /\ spawnCount' = spawnCount
                /\ pc' = pc /\ env' = env)]_vars

\* a request that names two unknown secrets around a known one
C14_Witness ==
    /\ RunAdmitted /\ toolResult # <<>>
    /\ secretNames = << <<"R">>, <<"K">>, <<"Q">> >>
    /\ StoreHas(store, <<"K">>)
    /\ toolResult[1].stderr = MissingPrefix \o <<"R", ",", " ", "Q">>

(***************************************************************************)
(* Claims about the SecretStore (StoreSpec).                               *)
(***************************************************************************)
\* the set calls made for name n, in call order
SetCallsOf(n) == SelectSeq(setCalls, LAMBDA c : c.name = n)

RECURSIVE FirstSetOrder(_, _)
FirstSetOrder(calls, seen) ==
    IF calls = <<>> THEN seen
    ELSE FirstSetOrder(Tail(calls),
            IF \E i \in 1..Len(seen) : seen[i] = Head(calls).name THEN seen
            ELSE Append(seen, Head(calls).name))

\* C16: names() lists each stored name once, in the order of its first set;
\* a later set never moves or removes a name.
C16_NamesInFirstSetOrder ==
    /\ [](StoreNames(store) = FirstSetOrder(setCalls, <<>>))
    /\ [][/\ Len(StoreNames(store')) >= Len(StoreNames(store))
          /\ \A i \in 1..Len(StoreNames(store)) :
                 StoreNames(store')[i] = StoreNames(store)[i]]_vars

\* the first name was set again after a second name was stored
C16_Witness ==
    /\ Len(setCalls) >= 3 /\ Len(StoreNames(store)) = 2
    /\ setCalls[1].name = StoreNames(store)[1]
    /\ setCalls[2].name = StoreNames(store)[2]
    /\ setCalls[3].name = setCalls[1].name
    /\ setCalls[3].value # setCalls[1].value

(***************************************************************************)
(* Further claims about one execute call (ExecSpec).                       *)
(***************************************************************************)
\* C22: execute never rejects, whatever the request, and every failure
\* (blocked command, timeout, spawn error) is a result with exit code 1 and
\* a non-empty stderr.
C22_NeverRejects ==
    /\ pc # "rejected"
    /\ (result # <<>> /\ (pc = "blocked" \/ timedOut \/ proc = "failed"))
          => (result[1].exitCode = 1 /\ result[1].stderr # <<>>)

\* C23: when an 'error' event is the first terminal event, the result is
\* exit code 1, empty stdout, the error's message as stderr and count 0,
\* whatever output was captured, and the timer is no longer pending.
C23_ErrorFirst ==
    /\ [][(EmitError /\ terminalEvents = 0) =>
            /\ resolved'
            /\ result' = <<[exitCode |-> 1, stdout |-> <<>>,
                            stderr |-> pendingError[1], redactedCount |-> 0]>>
            /\ timer' # "armed"]_vars
    /\ [][(TimerFire(TRUE) /\ terminalEvents = 0 /\ terminalEvents' = 1) =>
            /\ resolved'
            /\ result' = <<[exitCode |-> 1, stdout |-> <<>>,
                            stderr |-> KillErrorMessage, redactedCount |-> 0]>>
            /\ timer' # "armed"]_vars

\* an 'error' came first after output had been captured
C23_Witness ==
    /\ resolved /\ terminalEvents = 1 /\ ~exitEmitted
    /\ stdout # <<>> /\ stderr # <<>>
    /\ result[1].stdout = <<>> /\ result[1].stderr = KillErrorMessage

\* C24: a normal exit that the timer did not precede gives each stream
\* scrubbed by itself with the request's secrets, the sum of the two counts,
\* and the exit code of the process, or 1 when it has none.
C24_NormalExitResult ==
    [][((EmitExit \/ EmitClose) /\ ~resolved /\ ~timedOut) =>
         LET code == IF proc = "failed" THEN <<-2>> ELSE exitCode
             scrubStdout == Scrub(stdout, secrets, scrubMode, <<>>)
             scrubStderr == Scrub(stderr, secrets, scrubMode, <<>>)
         IN result' =
              <<[exitCode |-> IF code = <<>> THEN 1 ELSE code[1],
                 stdout |-> scrubStdout.text,
                 stderr |-> scrubStderr.text,
                 redactedCount |-> scrubStdout.redactedCount
                                   + scrubStderr.redactedCount]>>]_vars

\* a child that a signal ended, with a secret in each of its streams
C24_Witness ==
    /\ resolved /\ ~timedOut /\ proc = "dead" /\ exitCode = <<>>
    /\ result[1].exitCode = 1 /\ result[1].redactedCount = 2
    /\ stdout # <<>> /\ stderr # <<>>

\* C25: on normal completion every non-empty injected value that still
\* occurs in the returned stdout or stderr has a warning that names its
\* secret.
C25_WarningForEveryLeak ==
    (resolved /\ ~timedOut /\ proc = "dead") =>
        \A i \in 1..Len(secrets) :
            (/\ secrets[i].value # <<>>
             /\ \/ Includes(result[1].stdout, secrets[i].value)
                \/ Includes(result[1].stderr, secrets[i].value))
                => secrets[i].name \in warnings

\* C28: when the timer fires on a spawned child a group kill is attempted
\* first, and the direct child is killed if and only if the group kill
\* failed.
C28_GroupKillThenChild ==
    (timedOut /\ proc # "failed") =>
        \/ killLog = <<"group", "child">> /\ pgid # "own"
        \/ killLog = <<"group">> /\ pgid = "own"

\* C29: the result of a normal completion holds all the output the child
\* wrote up to the closing of its streams.
C29_ResultHoldsAllOutput ==
    (closeEmitted /\ resolved /\ ~timedOut /\ proc = "dead") =>
        /\ result[1].stdout = Scrub(stdout, secrets, scrubMode, <<>>).text
        /\ result[1].stderr = Scrub(stderr, secrets, scrubMode, <<>>).text

(***************************************************************************)
(* Further claims about the RateLimiter (RateSpec) and callTool (ToolSpec).*)
(***************************************************************************)
\* C27: getWaitTime() returns a number between 0 and windowMs, for every
\* maxRequests >= 0, and 0 when fewer than maxRequests timestamps remain.
C27_WaitTimeInRange ==
    lastWait # <<>> =>
        /\ ~lastWait[1].nan
        /\ lastWait[1].ms >= 0 /\ lastWait[1].ms <= windowMs
        /\ Len(timestamps) < maxRequests => lastWait[1].ms = 0

\* the names of a Map kept as a sequence of [name, value]
MapNames(map) == {map[i].name : i \in 1..Len(map)}

\* C30: the secrets map of a request that reaches execute has exactly the
\* requested names as keys, each with the value the store holds for it,
\* the empty string included.
C30_EveryRequestedSecretInjected ==
    (toolName = "run_with_secrets" /\ executeCalls = 1 /\ toolResult = <<>>) =>
        /\ MapNames(secrets) = {secretNames[i] : i \in 1..Len(secretNames)}
        /\ \A i \in 1..Len(secrets) :
               <<secrets[i].value>> = StoreGet(store, secrets[i].name)

(***************************************************************************)
(* Claims about the Scrubber constructor and redact (ConstructSpec).       *)
(***************************************************************************)
\* the patterns of the list that do not compile or whose probe was slow
Offending ==
    {i \in 1..Len(customSources) :
        SyntaxErrorReason(customSources[i]) # <<>> \/ i \in slowProbes}

\* C26: when a custom pattern of the list does not compile or a probe of it
\* runs over the time budget, the constructor throws an Error whose message
\* holds that pattern and no Scrubber exists, so no text is scrubbed; a
\* text is only ever scrubbed with all the custom patterns of the list.
C26_BadPatternFailsConstruction ==
    /\ (scrubber # "none" /\ Offending # {}) =>
          /\ scrubber = "failed"
          /\ customPatterns = <<>>
          /\ scrubResult = <<>>
          /\ constructError # <<>>
          /\ \E i \in Offending : Includes(constructError[1], customSources[i])
    /\ scrubResult # <<>> =>
          /\ Offending = {}
          /\ Len(customPatterns) = Len(customSources)

\* a list whose first pattern is fine and whose second one was slow: the
\* constructor threw the rejection that names the second
C26_Witness ==
    /\ scrubber = "failed"
    /\ Len(customSources) = 2
    /\ SyntaxErrorReason(customSources[1]) = <<>>
    /\ SyntaxErrorReason(customSources[2]) = <<>>
    /\ slowProbes = {2}
    /\ constructError = <<RejectedPrefix \o customSources[2]>>

\* what the claim says a match m is replaced with
C21_Replacement(mode, m, label) ==
    IF mode = "placeholder" THEN RedactedPrefix \o label \o <<"]">>
    ELSE IF mode = "asterisk" \/ Len(m) <= 6 THEN [i \in 1..Len(m) |-> "*"]
    ELSE <<m[1], m[2], m[3], "*", "*", "*",
           m[Len(m) - 2], m[Len(m) - 1], m[Len(m)]>>

\* no built-in pattern matches anywhere in t
NoBuiltinMatch(t) ==
    \A i \in 1..Len(BuiltinPatterns) : MatchAll(t, BuiltinPatterns[i].pattern) = <<>>

\* C21: a text that is one match m, replaced once, becomes what the mode
\* prescribes for m, whichever pass found it: the placeholder with the
\* label of the pass, Len(m) asterisks, or in partial mode Len(m) asterisks
\* up to six characters and first three, "***", last three beyond.
C21_ReplacementDependsOnMode ==
    (scrubResult # <<>> /\ scrubResult[1].redactedCount = 1 /\ scrubText # <<>>) =>
        /\ (Len(scrubKnown) = 1 /\ scrubKnown[1].value = scrubText) =>
              scrubResult[1].text =
                 C21_Replacement(scrubMode, scrubText, scrubKnown[1].name)
        /\ \A i \in 1..Len(BuiltinPatterns) :
              (/\ \A k \in 1..Len(scrubKnown) :
                      ~Includes(scrubText, scrubKnown[k].value)
               /\ MatchAll(scrubText, BuiltinPatterns[i].pattern) = <<scrubText>>) =>
                 scrubResult[1].text =
                    C21_Replacement(scrubMode, scrubText, BuiltinPatterns[i].name)
        /\ (/\ \A k \in 1..Len(scrubKnown) :
                  ~Includes(scrubText, scrubKnown[k].value)
            /\ NoBuiltinMatch(scrubText)
            /\ Len(customPatterns) = 1
            /\ MatchAll(scrubText, customPatterns[1]) = <<scrubText>>) =>
              scrubResult[1].text =
                 C21_Replacement(scrubMode, scrubText, CustomPatternName)

\* partial mode, and a custom pattern matched the whole text of seven
\* characters: the first three, "***", the last three
C21_Witness ==
    /\ scrubResult # <<>> /\ scrubMode = "partial"
    /\ scrubKnown = <<>>
    /\ Len(customPatterns) = 1
    /\ scrubText = <<"a", "b", "a", "b", "a", "b", "a">>
    /\ scrubResult[1].redactedCount = 1
    /\ scrubResult[1].text = <<"a", "b", "a", "*", "*", "*", "a", "b", "a">>

(***************************************************************************)
(* Further claims about the RateLimiter (RateSpec).                        *)
(***************************************************************************)
\* s is the end of t
IsSuffix(s, t) ==
    /\ Len(s) <= Len(t)
    /\ s = SubSeq(t, Len(t) - Len(s) + 1, Len(t))

\* C32: after any calls of check() and getWaitTime() at times that never go
\* back, this.timestamps holds at most maxRequests entries, in
\* non-decreasing order, and they are the latest admissions, the oldest
\* one that was kept first.
C32_TimestampsBoundedSorted ==
    /\ Len(timestamps) <= maxRequests
    /\ \A i \in 1..(Len(timestamps) - 1) : timestamps[i] <= timestamps[i + 1]
    /\ IsSuffix(timestamps, admitted)

\* a full window of two admissions at different times, after an older
\* admission was dropped
C32_Witness ==
    /\ maxRequests = 2 /\ Len(timestamps) = 2
    /\ timestamps[1] < timestamps[2]
    /\ Len(admitted) > 2

\* C33: when getWaitTime() returned the number w at time t and nothing was
\* admitted since, a check() at time t + w returns true; with w = 0 that is
\* a check() at time t.
C33_WaitIsEnough ==
    [][(/\ Check
        /\ waitAsked # <<>> /\ ~lastWait[1].nan
        /\ waitAsked[1].admissions = Len(admitted)
        /\ now = waitAsked[1].at + lastWait[1].ms)
       => lastCheck' = <<TRUE>>]_vars

\* a positive wait was reported, the time passed, and the check made then
\* was admitted
C33_Witness ==
    /\ waitAsked # <<>> /\ ~lastWait[1].nan /\ lastWait[1].ms > 0
    /\ now = waitAsked[1].at + lastWait[1].ms
    /\ lastCheck = <<TRUE>>
    /\ Len(admitted) = waitAsked[1].admissions + 1
    /\ admitted[Len(admitted)] = now

(***************************************************************************)
(* Further claims about callTool (ToolSpec).                               *)
(***************************************************************************)
\* C31: a run_with_secrets call that the enabled limiter admits records
\* exactly one timestamp, the time of the call, whatever becomes of the
\* call afterwards (unknown secret names, a blocked command); a call the
\* limiter denies and a call of another tool record none.
C31_AdmissionRecordedFirst ==
    [][toolCalls' = toolCalls + 1 =>
         IF toolName' = "run_with_secrets" /\ rateEnabled /\ lastCheck' = <<TRUE>>
         THEN /\ admitted' = Append(admitted, now)
              /\ timestamps' # <<>>
              /\ timestamps'[Len(timestamps')] = now
              /\ IsSuffix(SubSeq(timestamps', 1, Len(timestamps') - 1), timestamps)
         ELSE /\ admitted' = admitted
              /\ IsSuffix(timestamps', timestamps)
              /\ toolName' # "run_with_secrets" => timestamps' = timestamps]_vars

\* two admitted requests that were both turned down for unknown secret
\* names have used two slots of the window
C31_Witness ==
    /\ RunAdmitted /\ rateEnabled
    /\ RequestedButAbsent # <<>> /\ toolResult # <<>>
    /\ executeCalls = 0
    /\ Len(timestamps) = 2 /\ timestamps = admitted

\* C34: a run_with_secrets request the limiter denies is told a positive
\* wait: getWaitTime() returned a number in 1..windowMs and the message
\* states one second or more.
C34_ReportedWaitPositive ==
    (RunDenied /\ toolResult # <<>>) =>
        /\ lastWait # <<>> /\ ~lastWait[1].nan
        /\ lastWait[1].ms >= 1 /\ lastWait[1].ms <= windowMs
        /\ \E n \in 1..CeilSeconds(windowMs) :
              toolResult[1].stderr =
                 RateLimitPrefix \o NumberToString(n) \o RateLimitSuffix

(***************************************************************************)
(* Claims about the warning of handleExit (ExecSpec).                      *)
(***************************************************************************)
\* the value of the secret called name
ValueOf(name) ==
    LET i == CHOOSE j \in 1..Len(secrets) : secrets[j].name = name
    IN secrets[i].value

\* a warning is only written by the exit handler of a spawned child whose
\* timer did not fire
WarningOnlyOnNormalExit ==
    warnings # {} =>
        /\ pc = "spawned" /\ proc # "failed"
        /\ resolved /\ ~timedOut /\ result # <<>>

\* C35 as stated: a warning names a secret only if its value occurs in the
\* returned stdout or in the returned stderr, each taken alone, and there is
\* none on the timeout, spawn-error and blocked paths.
C35_WarningOnlyForSeparateLeak ==
    /\ WarningOnlyOnNormalExit
    /\ \A name \in warnings :
          \/ Includes(result[1].stdout, ValueOf(name))
          \/ Includes(result[1].stderr, ValueOf(name))

\* C35, amended: a warning names a secret only if its value, which is not
\* empty, occurs in the returned stdout followed by the returned stderr,
\* and there is none on the timeout, spawn-error and blocked paths.
C35_WarningOnlyForCombinedLeak ==
    /\ WarningOnlyOnNormalExit
    /\ \A name \in warnings :
          /\ ValueOf(name) # <<>>
          /\ Includes(result[1].stdout \o result[1].stderr, ValueOf(name))

\* the value "DD" is in neither stream but in their concatenation, and the
\* warning was written
C35_Witness ==
    /\ resolved /\ result # <<>>
    /\ secrets = <<[name |-> <<"K">>, value |-> <<"D", "D">>]>>
    /\ result[1].stdout = <<"D">> /\ result[1].stderr = <<"D">>
    /\ warnings = {<<"K">>}

(***************************************************************************)
(* A further claim about scrub (PatternSpec).                              *)
(***************************************************************************)
\* C36: in asterisk mode the scrubbed text is as long as the text and
\* differs from it only where it holds an asterisk.
C36_AsteriskKeepsLength ==
    (scrubResult # <<>> /\ scrubMode = "asterisk") =>
        /\ Len(scrubResult[1].text) = Len(scrubText)
        /\ \A i \in 1..Len(scrubText) :
              scrubResult[1].text[i] \in {scrubText[i], "*"}

\* a known secret and a token were both replaced in the middle of a text
C36_Witness ==
    /\ scrubResult # <<>> /\ scrubMode = "asterisk"
    /\ scrubResult[1].redactedCount >= 2
    /\ scrubResult[1].text # scrubText
    /\ \E i \in 1..Len(scrubText) : scrubResult[1].text[i] # "*"

====
